---- MODULE Spec2Model ----
(***************************************************************************)
(* ShopSense workspace: the edit history, the generation request and the   *)
(* controls that drive them (src/App.tsx and its components).              *)
(*                                                                         *)
(* Text (prompts, labels, error messages) is a sequence of tokens; the     *)
(* token " " is white space.  A missing File is NoFile, a missing image    *)
(* URL or error is the empty sequence (JavaScript tests both for           *)
(* truthiness only).  Indices are the code's: history[0] is the first      *)
(* entry, so entry i of the code is history[i + 1] here.                   *)
(***************************************************************************)
EXTENDS Integers, Sequences, FiniteSets, TLC

\* ------------------------------------------------------------- bounds

\* Longest history explored while calls do not overlap.
MaxHistory == 3

\* Most generation calls outstanding at once, and the longest history,
\* explored where calls overlap.
MaxCalls == 2

MaxOverlapHistory == 2

\* The longest history explored with URL imports, and the most imports
\* pending at once.
MaxImportHistory == 2

MaxFetches == 1

\* The most parts in a response handed to the decoder on its own.
MaxParts == 3

\* The most media streams granted and left running, the most conversions of
\* a captured photo pending at once, and the longest history explored with
\* the camera.
MaxStreams == 2

MaxPhotos == 1

MaxCameraHistory == 2

\* The longest history explored with the previews.
MaxPreviewHistory == 3

\* ---------------------------------------------------------- constants

\* window.innerWidth < 768 is the compact (mobile) layout.
MobileBreakpoint == 768

\* The viewport widths the model draws from: one compact, one wide.
Widths == {375, 1280}

\* The files a user picks from, and the one picked for each image type.
Files == {"A", "B"}

FilesFor(imageType) == IF imageType = "scene" THEN {"A"} ELSE {"B"}

NoFile == "null"

NoUrl == <<>>

NoError == <<>>

NoPanel == "null"

\* file.type of a picked file (the picker accepts png, jpeg and webp).
FileType(f) == IF f = "A" THEN "image/png" ELSE "image/jpeg"

\* The base64 text FileReader.readAsDataURL yields for a file, after the
\* comma.
FileBase64(f) == IF f = "A" THEN "QUFB" ELSE "QkJC"

\* The free text a user types into the prompt field.
Prompts == {<<" ">>, <<"make it sunset">>}

\* The Look previews of the tools panel.
LookNames == {"Golden Hour"}

DefaultPrompt == <<"Place the product naturally in the scene.">>

MissingInputMessage == <<"Please upload a scene photo first.">>

UnexpectedMessage == <<"An unexpected error occurred.">>

EmptyState ==
    [imageUrl |-> NoUrl, prompt |-> <<>>, sceneImage |-> NoFile,
     productImage |-> NoFile]

\* --------------------------------------------------------------- text

\* String.prototype.trim: white space off both ends.
RECURSIVE TrimStart(_)
TrimStart(s) ==
    IF s # <<>> /\ Head(s) = " " THEN TrimStart(Tail(s)) ELSE s

RECURSIVE TrimEnd(_)
TrimEnd(s) ==
    IF s # <<>> /\ s[Len(s)] = " "
    THEN TrimEnd(SubSeq(s, 1, Len(s) - 1))
    ELSE s

Trim(s) == TrimEnd(TrimStart(s))

\* ------------------------------------------------------ request parts

InlinePart(data, mimeType) ==
    [inlineData |-> [data |-> data, mimeType |-> mimeType]]

TextPart(t) == [text |-> t]

IsInline(part) == "inlineData" \in DOMAIN part

\* mimeType.startsWith('image/'), over the MIME types the model uses.
StartsWithImage(mimeType) ==
    mimeType \in {"image/png", "image/jpeg", "image/webp"}

\* `data:${mimeType};base64,${data}`
DataUrl(mimeType, data) == <<"data:", mimeType, ";base64,", data>>

\* dataUrl.match(/^data:(.*);base64,(.*)$/)
DataUrlMatches(url) ==
    Len(url) = 4 /\ url[1] = "data:" /\ url[3] = ";base64,"

DataUrlToGenerativePart(url) == InlinePart(url[4], url[2])

FileToGenerativePart(f) == InlinePart(FileBase64(f), FileType(f))

\* The instruction template with the prompt interpolated.
InstructionText(p) ==
    <<"Your task is to act as a photorealistic image editor. The prompt is: ">>
        \o p \o <<" Output only the final, edited image.">>

NoPart == [null |-> TRUE]

\* RequestParts with the product part never pushed.
RequestPartsSceneOnly(scenePart, productPart, p) ==
    <<scenePart, TextPart(InstructionText(p))>>

\* generateProductPlacement: parts = [scenePart], the product part pushed
\* when there is one, then the instruction text.
RequestParts(scenePart, productPart, p) ==
    <<scenePart>>
        \o (IF productPart # NoPart THEN <<productPart>> ELSE <<>>)
        \o <<TextPart(InstructionText(p))>>

\* ------------------------------------------------------------ history

\* currentState = history[currentHistoryIndex]
CurrentState(h, i) == h[i + 1]

\* UpdateStateAndHistory with the current snapshot's fields not carried over.
UpdateFromResultOnly(h, i, resultUrl, action) ==
    LET newHistoryState ==
            [EmptyState EXCEPT !.imageUrl = resultUrl, !.prompt = action]
        newHistory == Append(SubSeq(h, 1, i + 1), newHistoryState)
    IN  [history |-> newHistory, index |-> Len(newHistory) - 1]

\* updateStateAndHistory: { ...currentState, ...newState, prompt: action }
\* pushed onto history.slice(0, currentHistoryIndex + 1).
UpdateStateAndHistory(h, i, resultUrl, action) ==
    LET newHistoryState ==
            [CurrentState(h, i) EXCEPT !.imageUrl = resultUrl,
                                       !.prompt = action]
        newHistory == Append(SubSeq(h, 1, i + 1), newHistoryState)
    IN  [history |-> newHistory, index |-> Len(newHistory) - 1]

\* NewImageState showing the uploaded file as the result image.
NewImageStateWithPreview(cs, file, imageType, action) ==
    IF imageType = "scene"
    THEN [cs EXCEPT !.sceneImage = file, !.prompt = action,
                    !.imageUrl = DataUrl(FileType(file), FileBase64(file))]
    ELSE [cs EXCEPT !.productImage = file, !.prompt = action,
                    !.imageUrl = DataUrl(FileType(file), FileBase64(file))]

\* NewImageState without the spread of the current snapshot.
NewImageStateFresh(cs, file, imageType, action) ==
    IF imageType = "scene"
    THEN [EmptyState EXCEPT !.sceneImage = file, !.prompt = action]
    ELSE [EmptyState EXCEPT !.productImage = file, !.prompt = action]

\* updateStateWithNewImage: the snapshot it builds.
NewImageState(cs, file, imageType, action) ==
    [cs EXCEPT
        !.sceneImage = IF imageType = "scene" THEN file ELSE cs.sceneImage,
        !.productImage =
            IF imageType = "product" THEN file ELSE cs.productImage,
        !.prompt = action]

\* UpdateStateWithNewImage pushing onto the whole history, not its slice.
UpdateWithoutTruncation(h, i, file, imageType, action) ==
    LET cs == CurrentState(h, i)
        newHistoryState == NewImageState(cs, file, imageType, action)
    IN  IF cs.sceneImage = NoFile /\ cs.productImage = NoFile
        THEN [history |-> <<newHistoryState>>, index |-> 0]
        ELSE LET newHistory == Append(h, newHistoryState)
             IN  [history |-> newHistory, index |-> Len(newHistory) - 1]

\* UpdateStateWithNewImage without its first-upload branch.
UpdateAlwaysAppend(h, i, file, imageType, action) ==
    LET newHistory ==
            Append(SubSeq(h, 1, i + 1),
                   NewImageState(CurrentState(h, i), file, imageType, action))
    IN  [history |-> newHistory, index |-> Len(newHistory) - 1]

\* updateStateWithNewImage: the history and index it sets.
UpdateStateWithNewImage(h, i, file, imageType, action) ==
    LET cs == CurrentState(h, i)
        newHistoryState == NewImageState(cs, file, imageType, action)
    IN  IF cs.sceneImage = NoFile /\ cs.productImage = NoFile
        THEN [history |-> <<newHistoryState>>, index |-> 0]
        ELSE LET newHistory == Append(SubSeq(h, 1, i + 1), newHistoryState)
             IN  [history |-> newHistory, index |-> Len(newHistory) - 1]

\* handleUndo: the index it leaves.
UndoIndex(h, i) == IF i > 0 THEN i - 1 ELSE i

\* RedoIndex without its test.
RedoUnguarded(h, i) == i - 1

\* handleRedo: the index it leaves.
RedoIndex(h, i) == IF i < Len(h) - 1 THEN i - 1 ELSE i

\* ----------------------------------------------------------- generate

\* HasBaseImage counting a product image as a base.
HasAnyImage(cs) ==
    cs.imageUrl # NoUrl \/ cs.sceneImage # NoFile \/ cs.productImage # NoFile

\* hasBaseImage = currentState.imageUrl || currentState.sceneImage
HasBaseImage(cs) == cs.imageUrl # NoUrl \/ cs.sceneImage # NoFile

\* isFirstGeneration = !history.some(s => s.imageUrl)
IsFirstGeneration(h) == \A k \in 1..Len(h) : h[k].imageUrl = NoUrl

\* finalPrompt
FinalPrompt(actionPrompt) ==
    IF Trim(actionPrompt) = <<>> THEN DefaultPrompt ELSE actionPrompt

\* handleGenerate: scenePart, for a snapshot with a base image.
ScenePart(cs) ==
    IF cs.imageUrl # NoUrl
    THEN DataUrlToGenerativePart(cs.imageUrl)
    ELSE FileToGenerativePart(cs.sceneImage)

\* ProductPart sent whenever the snapshot has a product image.
ProductPartAlways(cs) ==
    IF cs.productImage # NoFile
    THEN FileToGenerativePart(cs.productImage)
    ELSE NoPart

\* handleGenerate: productPart.
ProductPart(cs) ==
    IF cs.imageUrl = NoUrl /\ cs.productImage # NoFile
    THEN FileToGenerativePart(cs.productImage)
    ELSE NoPart

\* generateProductPlacement's catch: the message it rethrows with.
FailedToGenerate(message) == <<"Failed to generate image: ">> \o message

ApiKeyMessage == <<"API_KEY environment variable is not set.">>

\* KeySet taking the key for granted.
KeyAssumed(key) == TRUE

\* generateProductPlacement's first test: process.env.API_KEY is set.
KeySet(key) == key

\* The responses the remote API is drawn from: the parts of its first
\* candidate.
Responses ==
    { <<InlinePart("UjE=", "image/png")>>,
      <<TextPart(<<"Here you go">>), InlinePart("UjE=", "image/png")>>,
      <<TextPart(<<"I cannot do that">>)>>,
      <<TextPart(<<" ">>)>>,
      <<>> }

\* FirstImage keeping the last image part it meets instead of the first.
RECURSIVE LastImage(_, _)
LastImage(parts, k) ==
    IF k > Len(parts) THEN 0
    ELSE IF LastImage(parts, k + 1) > 0
         THEN LastImage(parts, k + 1)
         ELSE IF IsInline(parts[k])
                 /\ StartsWithImage(parts[k].inlineData.mimeType)
              THEN k
              ELSE 0

\* The index of the first inline image part of a response, 0 when none.
RECURSIVE FirstImage(_, _)
FirstImage(parts, k) ==
    IF k > Len(parts) THEN 0
    ELSE IF IsInline(parts[k])
            /\ StartsWithImage(parts[k].inlineData.mimeType)
         THEN k
         ELSE FirstImage(parts, k + 1)

\* response.text: the text parts joined.
RECURSIVE ResponseText(_)
ResponseText(parts) ==
    IF parts = <<>> THEN <<>>
    ELSE (IF IsInline(Head(parts)) THEN <<>> ELSE Head(parts).text)
            \o ResponseText(Tail(parts))

\* generateProductPlacement after the await: the data URL it returns, or
\* the message it throws.
Decode(parts) ==
    LET k == FirstImage(parts, 1)
        textResponse == Trim(ResponseText(parts))
    IN  IF k > 0
        THEN [ok |-> TRUE,
              url |-> DataUrl(parts[k].inlineData.mimeType,
                              parts[k].inlineData.data),
              message |-> <<>>]
        ELSE IF textResponse # <<>>
        THEN [ok |-> FALSE, url |-> NoUrl,
              message |->
                  FailedToGenerate(
                      <<"Model returned a text response instead of an image: ">>
                          \o textResponse)]
        ELSE [ok |-> FALSE, url |-> NoUrl,
              message |->
                  FailedToGenerate(
                      <<"No image was generated in the response.">>)]

\* The two uploaders of LeftAside.
ImageTypes == {"scene", "product"}

\* ImageUploader's useState values: showUrlInput, imageUrl, isFetching,
\* fetchError.
NewUploader ==
    [showUrlInput |-> FALSE, imageUrl |-> <<>>, isFetching |-> FALSE,
     fetchError |-> NoError]

NoCamera == "null"

\* CameraModal's useState values: stream, capturedImage, error.
NewModal == [stream |-> FALSE, capturedImage |-> FALSE, error |-> FALSE]

\* The components whose effect creates an object URL: the ImageUploader of
\* each image type and LeftAside (productPreviewUrl).
PreviewHolders == ImageTypes \cup {"aside"}

\* All that creates object URLs: the effects, and the validation of an
\* imported blob.
UrlHolders == PreviewHolders \cup {"validation"}

\* No response decoded yet.
NotDecoded == [ok |-> FALSE, url |-> NoUrl, message |-> <<>>]

\* -------------------------------------------------------------- state

VARIABLES
    history,                \* useState<HistoryState[]>
    currentHistoryIndex,    \* useState(0)
    prompt,                 \* the free-text input
    isLoading,
    error,
    mobilePanel,            \* "images", "tools" or NoPanel
    mobileOnboardingStep,   \* "product", "scene" or "workspace"
    highlightTools,
    innerWidth,             \* window.innerWidth
    apiKey,                 \* whether process.env.API_KEY is set
    calls,                  \* the handleGenerate invocations still pending
    last,                   \* the operation that ran last and what it saw
    e2e,                    \* progress through the end-to-end scenario
    returned,               \* the data URLs generateProductPlacement returned
    candidate,              \* the parts of a response handed to the decoder
    decoded,                \* what the decoder made of candidate
    uploaders,              \* the state of the ImageUploader of each image type
    fetches,                \* the handleFetchFromUrl invocations still pending
    cameraFor,              \* "scene", "product" or NoCamera
    modal,                  \* the state of the mounted CameraModal
    requests,               \* the getUserMedia calls still pending
    activeStreams,          \* the granted streams whose tracks still run
    photos,                 \* the handleUsePhoto conversions still pending
    objectUrls,             \* the object URLs not yet revoked, by holder
    previews                \* the file whose URL each effect's cleanup holds

\* The state of the components beside the workspace.
aside ==
    <<candidate, decoded, cameraFor, modal, requests, activeStreams, photos>>

\* The object URLs and the effects that hold them.
urls == <<objectUrls, previews>>

vars ==
    <<history, currentHistoryIndex, prompt, isLoading, error, mobilePanel,
      mobileOnboardingStep, highlightTools, innerWidth, apiKey, calls, last,
      e2e, returned, aside, uploaders, fetches, objectUrls, previews>>

\* What an operation saw when it was invoked: the history and index of the
\* render its handler closes over.
\* client: generateProductPlacement was entered in this step; sent: the
\* parts of the request this step sent, if it sent one.
Saw(op, h, i, arg) ==
    [op |-> op, history |-> h, index |-> i, isLoading |-> isLoading,
     calls |-> Len(calls), arg |-> arg, client |-> FALSE, sent |-> <<>>]

\* The end-to-end scenario of the specification: upload scene A, upload
\* product B, generate, generate.
Scenario ==
    << <<"upload", "scene", "A">>, <<"upload", "product", "B">>,
       <<"generate">>, <<"generated">>, <<"generate">>, <<"generated">> >>

\* The scenario's progress after an event: one step on when the event is
\* its next step, off (-1) otherwise.
Step(event) ==
    IF e2e >= 0 /\ e2e < Len(Scenario) /\ Scenario[e2e + 1] = event
    THEN e2e + 1
    ELSE -1

InitApp ==
    /\ history = <<EmptyState>>
    /\ currentHistoryIndex = 0
    /\ prompt = <<>>
    /\ isLoading = FALSE
    /\ error = NoError
    /\ mobilePanel = NoPanel
    /\ innerWidth \in Widths
    /\ mobileOnboardingStep =
           IF innerWidth < MobileBreakpoint THEN "product" ELSE "workspace"
    /\ highlightTools = FALSE
    /\ apiKey \in BOOLEAN
    /\ calls = <<>>
    /\ last = Saw("init", <<EmptyState>>, 0, <<>>)
    /\ e2e = 0
    /\ returned = {}
    /\ uploaders = [imageType \in ImageTypes |-> NewUploader]
    /\ fetches = <<>>
    /\ cameraFor = NoCamera
    /\ modal = NewModal
    /\ requests = <<>>
    /\ activeStreams = 0
    /\ photos = <<>>
    /\ objectUrls = [holder \in UrlHolders |-> 0]
    /\ previews = [holder \in PreviewHolders |-> NoFile]

\* The application as mounted, with no response handed to the decoder on
\* its own.
Init ==
    /\ InitApp
    /\ candidate = <<>>
    /\ decoded = NotDecoded

\* ------------------------------------------------------------- layout

isMobile == innerWidth < MobileBreakpoint

\* App renders while currentState is defined; a render that reads a field
\* of the undefined history[-1] throws and React unmounts the tree.
Mounted ==
    currentHistoryIndex >= 0 /\ currentHistoryIndex < Len(history)

currentState == CurrentState(history, currentHistoryIndex)

\* The first return of App: only the onboarding LeftAside is rendered.
Onboarding == isMobile /\ mobileOnboardingStep # "workspace"

\* The uploader of an image type is on screen.
UploaderShown(imageType) ==
    IF Onboarding
    THEN mobileOnboardingStep = imageType
    ELSE ~isMobile \/ mobilePanel = "images"

\* The Create button is on screen.
CreateShown ==
    IF Onboarding
    THEN mobileOnboardingStep = "scene"
    ELSE ~isMobile \/ mobilePanel = "images"

\* MainContent is on screen: past onboarding, and on a compact viewport not
\* covered by the overlay of an open panel (absolute inset-0 z-30).
MainShown == ~Onboarding /\ (~isMobile \/ mobilePanel = NoPanel)

\* RightAside is on screen.
ToolsShown == ~Onboarding /\ (~isMobile \/ mobilePanel = "tools")

\* RightAside's disabled prop.
ToolsDisabled ==
    currentState.sceneImage = NoFile /\ currentState.imageUrl = NoUrl

\* The place in the rendered tree that holds the uploader of an image
\* type: the onboarding view renders only the uploader of its step, and App
\* returns a different tree for the workspace.
UploaderSlot(step, imageType) ==
    IF innerWidth < MobileBreakpoint /\ step # "workspace"
    THEN IF step = imageType THEN "onboarding" ELSE "none"
    ELSE "workspace"

\* The place in the rendered tree of a component that holds a preview;
\* "none" when it is not rendered.  App's two returns place LeftAside
\* differently.
Place(holder, mounted, step) ==
    IF ~mounted
    THEN "none"
    ELSE IF holder = "aside"
    THEN IF innerWidth < MobileBreakpoint /\ step # "workspace"
         THEN "onboarding" ELSE "workspace"
    ELSE UploaderSlot(step, holder)

\* The imageFile prop LeftAside passes to the uploader of an image type.
ImageFile(imageType, cs) ==
    IF imageType = "scene" THEN cs.sceneImage ELSE cs.productImage

\* The dependency array of the preview effect of a component: [imageFile]
\* for an uploader, [mobileOnboardingStep, productImage] for LeftAside,
\* which receives no step in the workspace.
EffectDeps(holder, place, step, cs) ==
    IF holder = "aside"
    THEN <<IF place = "onboarding" THEN step ELSE "undefined",
           cs.productImage>>
    ELSE <<ImageFile(holder, cs)>>

\* The file the preview effect creates an object URL for, NoFile when its
\* condition is false.
PreviewFile(holder, place, step, cs) ==
    IF holder = "aside"
    THEN IF place = "onboarding" /\ step = "scene"
         THEN cs.productImage ELSE NoFile
    ELSE ImageFile(holder, cs)

\* The cleanup of a preview effect leaving the URL it holds allocated.
RevokeSkipped(live, held) == live

\* The cleanup of a preview effect: URL.revokeObjectURL(url), when the
\* effect had created one.
Revoked(live, held) == IF held # NoFile THEN live - 1 ELSE live

\* The body of a preview effect: URL.createObjectURL(file) under its
\* condition.
Created(live, file) == IF file # NoFile THEN live + 1 ELSE live

\* The preview effects React runs when it commits the render of the next
\* state: where a component was unmounted, mounted anew, or rendered with
\* changed dependencies, the cleanup of its last effect and then, if it is
\* rendered, the effect.  base: the object URLs as the handler left them.
Effects(base) ==
    LET mountedAfter ==
            currentHistoryIndex' >= 0 /\ currentHistoryIndex' < Len(history')
        csBefore == IF Mounted THEN currentState ELSE EmptyState
        csAfter ==
            IF mountedAfter
            THEN CurrentState(history', currentHistoryIndex')
            ELSE EmptyState
        before(holder) == Place(holder, Mounted, mobileOnboardingStep)
        after(holder) == Place(holder, mountedAfter, mobileOnboardingStep')
        rerun(holder) ==
            \/ before(holder) # after(holder)
            \/ EffectDeps(holder, before(holder), mobileOnboardingStep,
                          csBefore)
                   # EffectDeps(holder, after(holder), mobileOnboardingStep',
                                csAfter)
        file(holder) ==
            IF after(holder) = "none"
            THEN NoFile
            ELSE PreviewFile(holder, after(holder), mobileOnboardingStep',
                             csAfter)
    IN  /\ previews' =
               [holder \in PreviewHolders |->
                   IF rerun(holder) THEN file(holder) ELSE previews[holder]]
        /\ objectUrls' =
               [holder \in UrlHolders |->
                   IF holder \in PreviewHolders /\ rerun(holder)
                   THEN Created(Revoked(base[holder], previews[holder]),
                                file(holder))
                   ELSE base[holder]]

\* A render after the onboarding step changed to newStep: an uploader whose
\* place changed is mounted anew, and the invocations the old one left
\* pending update a component that is gone.
Rerender(newStep) ==
    /\ uploaders' =
           [imageType \in ImageTypes |->
               IF UploaderSlot(mobileOnboardingStep, imageType)
                      = UploaderSlot(newStep, imageType)
               THEN uploaders[imageType]
               ELSE NewUploader]
    /\ fetches' =
           [k \in 1..Len(fetches) |->
               IF UploaderSlot(mobileOnboardingStep, fetches[k].imageType)
                      = UploaderSlot(newStep, fetches[k].imageType)
               THEN fetches[k]
               ELSE [fetches[k] EXCEPT !.live = FALSE]]
    /\ Effects(objectUrls)

\* ------------------------------------------------------------ uploads

\* updateStateWithNewImage, lines 66-68: the onboarding step it leaves.
StepAfterUpload(step, imageType) ==
    IF innerWidth < MobileBreakpoint /\ imageType = "product"
    THEN "scene"
    ELSE step

\* handleImageUpload: a file chosen in the picker of an uploader.
HandleImageUpload(imageType, file) ==
    /\ Mounted
    /\ UploaderShown(imageType)
    /\ LET r == UpdateStateWithNewImage(history, currentHistoryIndex, file,
                    imageType, <<"Uploaded ", imageType, " image">>)
       IN  /\ history' = r.history
           /\ currentHistoryIndex' = r.index
    /\ mobileOnboardingStep' = StepAfterUpload(mobileOnboardingStep, imageType)
    /\ last' = Saw("upload", history, currentHistoryIndex, <<imageType, file>>)
    /\ e2e' = Step(<<"upload", imageType, file>>)
    /\ Rerender(mobileOnboardingStep')
    /\ UNCHANGED <<prompt, isLoading, error, mobilePanel, highlightTools,
                   innerWidth, apiKey, returned, aside, calls>>

\* ----------------------------------------------------- handleGenerate

\* A pending handleGenerate: the history and index its closure holds, what
\* it computed before its first await, and where it waits ("reading": the
\* FileReader; "awaiting": the remote API, with the parts it sent).
Call(h, i, actionPrompt, stage, parts) ==
    [history |-> h, index |-> i, actionPrompt |-> actionPrompt,
     finalPrompt |-> FinalPrompt(actionPrompt),
     isFirstGeneration |-> IsFirstGeneration(h), stage |-> stage,
     parts |-> parts]

\* The parts generateProductPlacement builds for a pending call.
PartsOf(h, i, finalPrompt) ==
    RequestParts(ScenePart(CurrentState(h, i)),
                 ProductPart(CurrentState(h, i)), finalPrompt)

\* handleGenerate from its invocation to its first await, or to its end
\* when it ends before one.  kind "missing": the early return; "threw": an
\* exception caught before any await (error set, loading back to false);
\* "pending": it waits, as the call in started.
GenerateStart(h, i, actionPrompt, key) ==
    LET cs == CurrentState(h, i)
        finalPrompt == FinalPrompt(actionPrompt)
    IN  IF ~HasBaseImage(cs)
        THEN [kind |-> "missing", error |-> MissingInputMessage,
              started |-> <<>>, client |-> FALSE]
        ELSE IF cs.imageUrl = NoUrl
        THEN [kind |-> "pending", error |-> NoError,
              started |-> <<Call(h, i, actionPrompt, "reading", <<>>)>>,
              client |-> FALSE]
        ELSE IF ~DataUrlMatches(cs.imageUrl)
        THEN [kind |-> "threw", error |-> <<"Invalid data URL format">>,
              started |-> <<>>, client |-> FALSE]
        ELSE IF ~KeySet(key)
        THEN [kind |-> "threw", error |-> FailedToGenerate(ApiKeyMessage),
              started |-> <<>>, client |-> TRUE]
        ELSE [kind |-> "pending", error |-> NoError,
              started |->
                  <<Call(h, i, actionPrompt, "awaiting",
                         PartsOf(h, i, finalPrompt))>>,
              client |-> TRUE]

\* handleGenerate(actionPrompt), called by a control of the current render.
HandleGenerate(actionPrompt) ==
    LET o == GenerateStart(history, currentHistoryIndex, actionPrompt, apiKey)
    IN  /\ calls' = calls \o o.started
        /\ isLoading' =
               CASE o.kind = "missing" -> isLoading
                 [] o.kind = "threw" -> FALSE
                 [] o.kind = "pending" -> TRUE
        /\ error' = o.error
        /\ last' =
               [Saw("generate", history, currentHistoryIndex, actionPrompt)
                   EXCEPT !.client = o.client,
                          !.sent = IF o.started # <<>>
                                   THEN o.started[1].parts ELSE <<>>]
        /\ e2e' = Step(IF o.kind = "pending"
                       THEN <<"generate">> ELSE <<"failed">>)
        /\ UNCHANGED <<history, currentHistoryIndex, mobileOnboardingStep,
                       highlightTools, innerWidth, apiKey, returned, aside,
                       uploaders, fetches, urls>>

\* The prompt field: onChange.
SetPrompt(p) ==
    /\ Mounted
    /\ ToolsShown
    /\ ~(isLoading \/ ToolsDisabled)
    /\ prompt' = p
    /\ UNCHANGED <<history, currentHistoryIndex, isLoading, error,
                   mobilePanel, mobileOnboardingStep, highlightTools,
                   innerWidth, apiKey, returned, aside, calls, last, e2e,
                   uploaders, fetches, urls>>

\* RightAside's onGenerate: the send button, or Enter in the prompt field.
ClickSend ==
    /\ Mounted
    /\ ToolsShown
    /\ ~(isLoading \/ ToolsDisabled)
    /\ HandleGenerate(prompt)
    /\ UNCHANGED <<prompt, mobilePanel>>

\* handleInitiateGeneration: the Create button.
ClickCreate ==
    /\ Mounted
    /\ CreateShown
    /\ ~(currentState.sceneImage = NoFile \/ isLoading)
    /\ mobilePanel' = NoPanel
    /\ HandleGenerate(prompt)
    /\ UNCHANGED prompt

\* `Apply a '${lookName}' look to the image.`
LookPrompt(lookName) ==
    <<"Apply a '", lookName, "' look to the image.">>

\* handleApplyLook: a click on a Look preview.
ClickLook(lookName) ==
    /\ Mounted
    /\ ToolsShown
    /\ prompt' = LookPrompt(lookName)
    /\ HandleGenerate(LookPrompt(lookName))
    /\ UNCHANGED mobilePanel

\* ------------------------------------------- handleGenerate, resumed

Remove(seq, k) == SubSeq(seq, 1, k - 1) \o SubSeq(seq, k + 1, Len(seq))

\* ErrorMessage without its fallback.
ErrorMessageRaw(message) == message

\* err.message || "An unexpected error occurred."
ErrorMessage(message) ==
    IF message # <<>> THEN message ELSE UnexpectedMessage

\* catch and finally of handleGenerate: setError(err.message || ...),
\* setIsLoading(false).
Caught(k, message) ==
    /\ calls' = Remove(calls, k)
    /\ error' = ErrorMessage(message)
    /\ isLoading' = FALSE
    /\ e2e' = Step(<<"failed">>)
    /\ UNCHANGED <<history, currentHistoryIndex, prompt, mobilePanel,
                   mobileOnboardingStep, highlightTools, innerWidth, apiKey,
                   returned, aside, uploaders, fetches, urls>>

\* The FileReader has read the scene (and product) file: handleGenerate
\* resumes and enters generateProductPlacement, which sends the request or
\* throws for want of an API key.
FilesEncoded(k) ==
    /\ Mounted
    /\ k \in 1..Len(calls)
    /\ calls[k].stage = "reading"
    /\ LET c == calls[k]
           parts == PartsOf(c.history, c.index, c.finalPrompt)
       IN  IF KeySet(apiKey)
           THEN /\ calls' = [calls EXCEPT ![k].stage = "awaiting",
                                          ![k].parts = parts]
                /\ last' = [Saw("encoded", c.history, c.index, <<>>)
                               EXCEPT !.client = TRUE, !.sent = parts]
                /\ UNCHANGED <<history, currentHistoryIndex, prompt,
                               isLoading, error, mobilePanel,
                               mobileOnboardingStep, highlightTools,
                               innerWidth, apiKey, returned, aside, e2e,
                               uploaders, fetches, urls>>
           ELSE /\ Caught(k, FailedToGenerate(ApiKeyMessage))
                /\ last' = [Saw("encoded", c.history, c.index, <<>>)
                               EXCEPT !.client = TRUE]

\* reader.onerror: fileToBase64 rejects with the reader's event, which has
\* no message.
FilesFailed(k) ==
    /\ Mounted
    /\ k \in 1..Len(calls)
    /\ calls[k].stage = "reading"
    /\ Caught(k, <<>>)
    /\ last' = Saw("failed", calls[k].history, calls[k].index, <<>>)

\* handleGenerate after generateProductPlacement returned resultUrl.
Succeeded(k, resultUrl) ==
    LET c == calls[k]
        r == UpdateStateAndHistory(c.history, c.index, resultUrl,
                                   c.finalPrompt)
    IN  /\ history' = r.history
        /\ currentHistoryIndex' = r.index
        /\ prompt' = <<>>
        /\ mobileOnboardingStep' =
               IF innerWidth < MobileBreakpoint
               THEN "workspace" ELSE mobileOnboardingStep
        /\ highlightTools' =
               IF c.isFirstGeneration THEN TRUE ELSE highlightTools
        /\ isLoading' = FALSE
        /\ calls' = Remove(calls, k)
        /\ last' = Saw("generated", c.history, c.index, resultUrl)
        /\ e2e' = Step(<<"generated">>)
        /\ returned' = returned \cup {resultUrl}
        /\ Rerender(mobileOnboardingStep')
        /\ UNCHANGED <<error, mobilePanel, innerWidth, apiKey, aside>>

\* The remote API answered: generateProductPlacement decodes the response.
GenerateResolved(k, response) ==
    /\ Mounted
    /\ k \in 1..Len(calls)
    /\ calls[k].stage = "awaiting"
    /\ LET d == Decode(response)
       IN  IF d.ok
           THEN Succeeded(k, d.url)
           ELSE /\ Caught(k, d.message)
                /\ last' = Saw("failed", calls[k].history, calls[k].index,
                               <<>>)

TransportMessage == <<"fetch failed">>

\* ai.models.generateContent rejected (transport, authentication).
GenerateRejected(k) ==
    /\ Mounted
    /\ k \in 1..Len(calls)
    /\ calls[k].stage = "awaiting"
    /\ Caught(k, FailedToGenerate(TransportMessage))
    /\ last' = Saw("failed", calls[k].history, calls[k].index, <<>>)

\* A call that completes after the tree was unmounted: its state updates
\* reach no component.
Dropped(k) ==
    /\ ~Mounted
    /\ k \in 1..Len(calls)
    /\ calls' = Remove(calls, k)
    /\ UNCHANGED <<history, currentHistoryIndex, prompt, isLoading, error,
                   mobilePanel, mobileOnboardingStep, highlightTools,
                   innerWidth, apiKey, returned, aside, last, e2e, uploaders,
                   fetches, urls>>

\* ------------------------------------------------- undo, redo, reset

HandleUndo ==
    /\ Mounted
    /\ MainShown
    /\ ~isLoading
    /\ currentHistoryIndex' = UndoIndex(history, currentHistoryIndex)
    /\ last' = Saw("undo", history, currentHistoryIndex, <<>>)
    /\ e2e' = Step(<<"undo">>)
    /\ UNCHANGED <<history, prompt, isLoading, error, mobilePanel,
                   mobileOnboardingStep, highlightTools, innerWidth, apiKey,
                   returned, aside, calls, uploaders, fetches>>
    /\ Effects(objectUrls)

HandleRedo ==
    /\ Mounted
    /\ MainShown
    /\ ~isLoading
    /\ currentHistoryIndex' = RedoIndex(history, currentHistoryIndex)
    /\ last' = Saw("redo", history, currentHistoryIndex, <<>>)
    /\ e2e' = Step(<<"redo">>)
    /\ UNCHANGED <<history, prompt, isLoading, error, mobilePanel,
                   mobileOnboardingStep, highlightTools, innerWidth, apiKey,
                   returned, aside, calls, uploaders, fetches>>
    /\ Effects(objectUrls)

\* HandleStartOver leaving the error and the loading flag as they are.
StartOverKeepingError ==
    /\ Mounted
    /\ MainShown
    /\ ~isLoading
    /\ history' = <<EmptyState>>
    /\ currentHistoryIndex' = 0
    /\ prompt' = <<>>
    /\ mobileOnboardingStep' =
           IF innerWidth < MobileBreakpoint
           THEN "product" ELSE mobileOnboardingStep
    /\ last' = Saw("startOver", history, currentHistoryIndex, <<>>)
    /\ e2e' = Step(<<"startOver">>)
    /\ UNCHANGED <<error, isLoading, mobilePanel, highlightTools, innerWidth,
                   apiKey, returned, aside, calls>>
    /\ Rerender(mobileOnboardingStep')

HandleStartOver ==
    /\ Mounted
    /\ MainShown
    /\ ~isLoading
    /\ history' = <<EmptyState>>
    /\ currentHistoryIndex' = 0
    /\ prompt' = <<>>
    /\ error' = NoError
    /\ isLoading' = FALSE
    /\ mobileOnboardingStep' =
           IF innerWidth < MobileBreakpoint
           THEN "product" ELSE mobileOnboardingStep
    /\ last' = Saw("startOver", history, currentHistoryIndex, <<>>)
    /\ e2e' = Step(<<"startOver">>)
    /\ Rerender(mobileOnboardingStep')
    /\ UNCHANGED <<mobilePanel, highlightTools, innerWidth, apiKey, returned,
                   aside, calls>>

\* ------------------------------------------------------ mobile panels

\* handleNavClick: a button of MobileNav (fixed, z-20), which the overlay
\* of an open panel (z-30) covers.
HandleNavClick(panel) ==
    /\ Mounted
    /\ isMobile
    /\ ~Onboarding
    /\ mobilePanel = NoPanel
    /\ highlightTools' = IF panel = "tools" THEN FALSE ELSE highlightTools
    /\ mobilePanel' = IF panel = mobilePanel THEN NoPanel ELSE panel
    /\ UNCHANGED <<history, currentHistoryIndex, prompt, isLoading, error,
                   mobileOnboardingStep, innerWidth, apiKey, returned, aside,
                   calls, last, e2e, uploaders, fetches, urls>>

\* onClose of an open panel: setMobilePanel(null).
ClosePanel ==
    /\ Mounted
    /\ ~Onboarding
    /\ mobilePanel # NoPanel
    /\ mobilePanel' = NoPanel
    /\ UNCHANGED <<history, currentHistoryIndex, prompt, isLoading, error,
                   mobileOnboardingStep, highlightTools, innerWidth, apiKey,
                   returned, aside, calls, last, e2e, uploaders, fetches,
                   urls>>

\* --------------------------------------------------------- URL import

\* The texts typed into the URL field.
Urls == {<<"https://shop.example/sofa.png">>}

\* The File handleFetchFromUrl builds from the blob it fetched.
UrlFile == "U"

\* The HTTP statuses the proxy answers with.
Statuses == {"200", "404"}

StatusOk(status) == status = "200"

\* setFetchError(error.message || "An error occurred. ...")
FetchErrorMessage(message) ==
    IF message # <<>>
    THEN message
    ELSE <<"An error occurred. Please check the URL and try again.">>

\* handleFetchFromUrl after the response: the message it throws, if any.
AfterResponse(status) ==
    IF ~StatusOk(status)
    THEN <<"Failed to fetch image. Status: ", status>>
    ELSE <<>>

\* AfterValidation with the outcome of the image load ignored.
AfterValidationUnchecked(isImage) == <<>>

\* handleFetchFromUrl after the blob was loaded into an Image: the message
\* it throws, if any.
AfterValidation(isImage) ==
    IF ~isImage
    THEN <<"The URL did not provide a valid image.">>
    ELSE <<>>

\* The blob is in: URL.createObjectURL(blob) for the validation image.
ValidationStarted(live) ==
    [live EXCEPT !["validation"] = live["validation"] + 1]

\* img.onload and img.onerror: each revokes the validation URL before it
\* resolves.
ValidationDone(live, isImage) ==
    [live EXCEPT !["validation"] = live["validation"] - 1]

\* The link button: setShowUrlInput(!showUrlInput).
ToggleUrlInput(imageType) ==
    /\ Mounted
    /\ UploaderShown(imageType)
    /\ uploaders' =
           [uploaders EXCEPT ![imageType].showUrlInput =
                                 ~uploaders[imageType].showUrlInput]
    /\ UNCHANGED <<history, currentHistoryIndex, prompt, isLoading, error,
                   mobilePanel, mobileOnboardingStep, highlightTools,
                   innerWidth, apiKey, calls, last, e2e, returned, aside,
                   fetches, urls>>

\* The URL field: onChange.
SetImageUrl(imageType, url) ==
    /\ Mounted
    /\ UploaderShown(imageType)
    /\ uploaders[imageType].showUrlInput
    /\ ~uploaders[imageType].isFetching
    /\ uploaders' = [uploaders EXCEPT ![imageType].imageUrl = url]
    /\ UNCHANGED <<history, currentHistoryIndex, prompt, isLoading, error,
                   mobilePanel, mobileOnboardingStep, highlightTools,
                   innerWidth, apiKey, calls, last, e2e, returned, aside,
                   fetches, urls>>

\* handleFetchFromUrl up to its first await: the Fetch button, or Enter in
\* the URL field.  The invocation holds the onUrlUpload of the render it
\* was made in, and with it that render's history and index.
HandleFetchFromUrl(imageType) ==
    /\ Mounted
    /\ UploaderShown(imageType)
    /\ uploaders[imageType].showUrlInput
    /\ ~uploaders[imageType].isFetching
    /\ uploaders[imageType].imageUrl # <<>>
    /\ uploaders' = [uploaders EXCEPT ![imageType].isFetching = TRUE,
                                      ![imageType].fetchError = NoError]
    /\ fetches' =
           Append(fetches,
                  [imageType |-> imageType, history |-> history,
                   index |-> currentHistoryIndex, stage |-> "fetching",
                   live |-> TRUE])
    /\ last' = Saw("fetch", history, currentHistoryIndex, <<imageType>>)
    /\ UNCHANGED <<history, currentHistoryIndex, prompt, isLoading, error,
                   mobilePanel, mobileOnboardingStep, highlightTools,
                   innerWidth, apiKey, calls, e2e, returned, aside, urls>>

\* catch and finally of handleFetchFromUrl: setFetchError, then
\* setIsFetching(false), on the uploader that made the invocation if it is
\* still mounted.
ImportFailed(k, message) ==
    LET f == fetches[k]
    IN  /\ fetches' = Remove(fetches, k)
        /\ uploaders' =
               IF f.live
               THEN [uploaders EXCEPT
                        ![f.imageType].fetchError = FetchErrorMessage(message),
                        ![f.imageType].isFetching = FALSE]
               ELSE uploaders
        /\ last' = Saw("importFailed", f.history, f.index,
                       <<f.imageType, f.live>>)
        /\ UNCHANGED <<history, currentHistoryIndex, prompt, isLoading,
                       error, mobilePanel, mobileOnboardingStep,
                       highlightTools, innerWidth, apiKey, calls, e2e,
                       returned, aside>>

\* onUrlUpload(file), then the reset on success and the finally: the file
\* goes to updateStateWithNewImage of the render the invocation was made
\* in.
ImportSucceeded(k) ==
    LET f == fetches[k]
        r == UpdateStateWithNewImage(f.history, f.index, UrlFile, f.imageType,
                                     <<"Imported ", f.imageType, " from URL">>)
        newStep == StepAfterUpload(mobileOnboardingStep, f.imageType)
        stays == UploaderSlot(mobileOnboardingStep, f.imageType)
                     = UploaderSlot(newStep, f.imageType)
    IN  /\ history' = r.history
        /\ currentHistoryIndex' = r.index
        /\ mobileOnboardingStep' = newStep
        /\ uploaders' =
               [imageType \in ImageTypes |->
                   IF UploaderSlot(mobileOnboardingStep, imageType)
                          # UploaderSlot(newStep, imageType)
                   THEN NewUploader
                   ELSE IF imageType = f.imageType /\ f.live
                   THEN [uploaders[imageType] EXCEPT
                            !.showUrlInput = FALSE, !.imageUrl = <<>>,
                            !.isFetching = FALSE]
                   ELSE uploaders[imageType]]
        /\ fetches' =
               LET rest == Remove(fetches, k)
               IN  [j \in 1..Len(rest) |->
                       IF UploaderSlot(mobileOnboardingStep, rest[j].imageType)
                              = UploaderSlot(newStep, rest[j].imageType)
                       THEN rest[j]
                       ELSE [rest[j] EXCEPT !.live = FALSE]]
        /\ last' = Saw("imported", f.history, f.index,
                       <<f.imageType, UrlFile>>)
        /\ e2e' = Step(<<"imported">>)
        /\ UNCHANGED <<prompt, isLoading, error, mobilePanel, highlightTools,
                       innerWidth, apiKey, calls, returned, aside>>
        /\ Effects(ValidationDone(objectUrls, TRUE))

\* fetch(proxyUrl) resolved with a response of the given status.
FetchResponded(k, status) ==
    /\ Mounted
    /\ k \in 1..Len(fetches)
    /\ fetches[k].stage = "fetching"
    /\ IF AfterResponse(status) # <<>>
       THEN ImportFailed(k, AfterResponse(status)) /\ UNCHANGED urls
       ELSE /\ fetches' = [fetches EXCEPT ![k].stage = "validating"]
            /\ objectUrls' = ValidationStarted(objectUrls)
            /\ UNCHANGED <<history, currentHistoryIndex, prompt, isLoading,
                           error, mobilePanel, mobileOnboardingStep,
                           highlightTools, innerWidth, apiKey, calls, last,
                           e2e, returned, aside, uploaders, previews>>

\* fetch(proxyUrl) rejected: a transport error, with or without a message.
FetchRejected(k, message) ==
    /\ Mounted
    /\ k \in 1..Len(fetches)
    /\ fetches[k].stage = "fetching"
    /\ ImportFailed(k, message)
    /\ UNCHANGED urls

\* img.onload (isImage) or img.onerror (~isImage) of the validation image.
BlobValidated(k, isImage) ==
    /\ Mounted
    /\ k \in 1..Len(fetches)
    /\ fetches[k].stage = "validating"
    /\ IF AfterValidation(isImage) # <<>>
       THEN /\ ImportFailed(k, AfterValidation(isImage))
            /\ objectUrls' = ValidationDone(objectUrls, isImage)
            /\ UNCHANGED previews
       ELSE ImportSucceeded(k)

\* ------------------------------------------------------------- camera

\* The file handleUsePhoto builds from the captured frame.
CaptureFile == "P"

\* handleOpenCamera: the camera button of an uploader.  CameraModal mounts
\* and its effect calls getUserMedia.
HandleOpenCamera(imageType) ==
    /\ Mounted
    /\ UploaderShown(imageType)
    /\ cameraFor = NoCamera
    /\ cameraFor' = imageType
    /\ modal' = NewModal
    /\ requests' = Append(requests, [live |-> TRUE])
    /\ UNCHANGED <<history, currentHistoryIndex, prompt, isLoading, error,
                   mobilePanel, mobileOnboardingStep, highlightTools,
                   innerWidth, apiKey, calls, last, e2e, returned, candidate,
                   decoded, uploaders, fetches, activeStreams, photos, urls>>

\* The cleanup of CameraModal's stream effect, which stops the tracks of
\* the stream its closure holds: the effect ran once, in the first render,
\* where stream is the initial state.
EffectStream == NewModal.stream

TracksAfterCleanup(active) == IF EffectStream THEN 0 ELSE active

\* CameraModal unmounts: the cleanup runs, and what the modal left pending
\* updates a component that is gone.
Unmounted ==
    /\ modal' = NewModal
    /\ requests' = [k \in 1..Len(requests) |-> [live |-> FALSE]]
    /\ activeStreams' = TracksAfterCleanup(activeStreams)

\* getUserMedia resolved: setStream(mediaStream).
StreamGranted(k) ==
    /\ k \in 1..Len(requests)
    /\ activeStreams' = activeStreams + 1
    /\ modal' = IF requests[k].live
                THEN [modal EXCEPT !.stream = TRUE]
                ELSE modal
    /\ requests' = Remove(requests, k)
    /\ UNCHANGED <<history, currentHistoryIndex, prompt, isLoading, error,
                   mobilePanel, mobileOnboardingStep, highlightTools,
                   innerWidth, apiKey, calls, last, e2e, returned, candidate,
                   decoded, uploaders, fetches, cameraFor, photos, urls>>

\* getUserMedia rejected: setError(...).
StreamDenied(k) ==
    /\ k \in 1..Len(requests)
    /\ modal' = IF requests[k].live
                THEN [modal EXCEPT !.error = TRUE]
                ELSE modal
    /\ requests' = Remove(requests, k)
    /\ UNCHANGED <<history, currentHistoryIndex, prompt, isLoading, error,
                   mobilePanel, mobileOnboardingStep, highlightTools,
                   innerWidth, apiKey, calls, last, e2e, returned, candidate,
                   decoded, uploaders, fetches, cameraFor, activeStreams,
                   photos, urls>>

\* handleCapture (the shutter, disabled without a stream) and handleRetake.
HandleCapture ==
    /\ cameraFor # NoCamera
    /\ ~modal.error
    /\ modal.stream
    /\ ~modal.capturedImage
    /\ modal' = [modal EXCEPT !.capturedImage = TRUE]
    /\ UNCHANGED <<history, currentHistoryIndex, prompt, isLoading, error,
                   mobilePanel, mobileOnboardingStep, highlightTools,
                   innerWidth, apiKey, calls, last, e2e, returned, candidate,
                   decoded, uploaders, fetches, cameraFor, requests,
                   activeStreams, photos, urls>>

HandleRetake ==
    /\ cameraFor # NoCamera
    /\ ~modal.error
    /\ modal.capturedImage
    /\ modal' = [modal EXCEPT !.capturedImage = FALSE]
    /\ UNCHANGED <<history, currentHistoryIndex, prompt, isLoading, error,
                   mobilePanel, mobileOnboardingStep, highlightTools,
                   innerWidth, apiKey, calls, last, e2e, returned, candidate,
                   decoded, uploaders, fetches, cameraFor, requests,
                   activeStreams, photos, urls>>

\* handleUsePhoto up to fetch(capturedImage): the conversion holds the
\* onCapture of the render it was started in.
HandleUsePhoto ==
    /\ cameraFor # NoCamera
    /\ ~modal.error
    /\ modal.capturedImage
    /\ photos' = Append(photos, [cameraFor |-> cameraFor, history |-> history,
                                 index |-> currentHistoryIndex])
    /\ UNCHANGED <<history, currentHistoryIndex, prompt, isLoading, error,
                   mobilePanel, mobileOnboardingStep, highlightTools,
                   innerWidth, apiKey, calls, last, e2e, returned, candidate,
                   decoded, uploaders, fetches, cameraFor, modal, requests,
                   activeStreams, urls>>

\* The captured frame became a File: onCapture(file), that is
\* handleImageCapture, which hands it to updateStateWithNewImage and closes
\* the modal.
PhotoReady(k) ==
    /\ Mounted
    /\ k \in 1..Len(photos)
    /\ LET c == photos[k]
           r == UpdateStateWithNewImage(
                    c.history, c.index, CaptureFile, c.cameraFor,
                    <<"Captured ", c.cameraFor, " image from camera">>)
       IN  /\ history' = r.history
           /\ currentHistoryIndex' = r.index
           /\ mobileOnboardingStep' =
                  StepAfterUpload(mobileOnboardingStep, c.cameraFor)
           /\ last' = Saw("captured", c.history, c.index,
                          <<c.cameraFor, CaptureFile>>)
    /\ cameraFor' = NoCamera
    /\ Unmounted
    /\ photos' = Remove(photos, k)
    /\ e2e' = Step(<<"captured">>)
    /\ Rerender(mobileOnboardingStep')
    /\ UNCHANGED <<prompt, isLoading, error, mobilePanel, highlightTools,
                   innerWidth, apiKey, calls, returned, candidate, decoded>>

\* onClose: the close button of the modal, setCameraFor(null).
CloseCamera ==
    /\ cameraFor # NoCamera
    /\ cameraFor' = NoCamera
    /\ Unmounted
    /\ UNCHANGED <<history, currentHistoryIndex, prompt, isLoading, error,
                   mobilePanel, mobileOnboardingStep, highlightTools,
                   innerWidth, apiKey, calls, last, e2e, returned, candidate,
                   decoded, uploaders, fetches, photos, urls>>

\* ------------------------------------------------------ specification

\* The steps explored: those that leave at most maxCalls calls outstanding
\* and a history of at most maxHistory entries.  The end-to-end scenario is
\* followed to its end whatever the length of its history.
Explored(maxHistory, maxCalls) ==
    /\ Len(calls') <= maxCalls
    /\ Len(history') <= maxHistory \/ e2e' > 0

\* The steps that edit the workspace, within the bounds explored.
Edits(maxHistory, maxCalls) ==
    \/ \E imageType \in {"scene", "product"} :
           \E file \in FilesFor(imageType) :
               /\ HandleImageUpload(imageType, file)
               /\ Explored(maxHistory, maxCalls)
    \/ \E p \in Prompts : SetPrompt(p)
    \/ ClickSend /\ Explored(maxHistory, maxCalls)
    \/ ClickCreate /\ Explored(maxHistory, maxCalls)
    \/ \E lookName \in LookNames :
           ClickLook(lookName) /\ Explored(maxHistory, maxCalls)
    \/ \E k \in 1..Len(calls) : FilesEncoded(k)
    \/ \E k \in 1..Len(calls) : FilesFailed(k)
    \/ \E k \in 1..Len(calls), response \in Responses :
           GenerateResolved(k, response) /\ Explored(maxHistory, maxCalls)
    \/ \E k \in 1..Len(calls) : GenerateRejected(k)
    \/ HandleUndo
    \/ HandleRedo
    \/ HandleStartOver

\* The steps of the compact layout's panels.
Panels ==
    \/ \E panel \in {"images", "tools", NoPanel} : HandleNavClick(panel)
    \/ ClosePanel

\* One generation call at a time: the caller upholds the convention that no
\* call is started while another is outstanding.
Next == Edits(MaxHistory, 1) \/ Panels

Spec == Init /\ [][Next]_vars

\* Overlapping generation calls on a wide viewport: a Look preview clicked
\* while loading.
InitOverlap == Init /\ innerWidth >= MobileBreakpoint

NextOverlap ==
    \/ Edits(MaxOverlapHistory, MaxCalls)
    \/ \E k \in 1..Len(calls) : Dropped(k)

SpecOverlap == InitOverlap /\ [][NextOverlap]_vars

\* The messages a rejected fetch carries.
RejectMessages == {<<"Failed to fetch">>, <<>>}

\* URL imports beside file uploads and undo, with an API key configured.
InitImport == Init /\ apiKey

NextImport ==
    \/ \E imageType \in ImageTypes :
           \E file \in FilesFor(imageType) :
               /\ HandleImageUpload(imageType, file)
               /\ Len(history') <= MaxImportHistory
    \/ \E imageType \in ImageTypes : ToggleUrlInput(imageType)
    \/ \E imageType \in ImageTypes, url \in Urls \cup {<<>>} :
           SetImageUrl(imageType, url)
    \/ \E imageType \in ImageTypes :
           HandleFetchFromUrl(imageType) /\ Len(fetches') <= MaxFetches
    \/ \E k \in 1..Len(fetches), status \in Statuses :
           FetchResponded(k, status)
    \/ \E k \in 1..Len(fetches), message \in RejectMessages :
           FetchRejected(k, message)
    \/ \E k \in 1..Len(fetches), isImage \in BOOLEAN :
           BlobValidated(k, isImage) /\ Len(history') <= MaxImportHistory
    \/ HandleUndo

SpecImport == InitImport /\ [][NextImport]_vars

\* The parts a response is made of: two images, an inline part that is no
\* image, a refusal, a blank text and a text with blanks around it.
PartKinds ==
    { InlinePart("UjE=", "image/png"), InlinePart("UjI=", "image/jpeg"),
      InlinePart("UERG", "application/pdf"), TextPart(<<"I cannot do that">>),
      TextPart(<<" ">>), TextPart(<<" ", "Sorry", " ">>) }

\* The sequences of at most n elements of S.
SeqsUpTo(S, n) == UNION {[1..m -> S] : m \in 0..n}

\* generateProductPlacement after the await, on the parts of candidate.
DecodeCandidate ==
    /\ decoded = NotDecoded
    /\ decoded' = Decode(candidate)
    /\ UNCHANGED <<history, currentHistoryIndex, prompt, isLoading, error,
                   mobilePanel, mobileOnboardingStep, highlightTools,
                   innerWidth, apiKey, calls, last, e2e, returned,
                   candidate, uploaders, fetches, cameraFor, modal,
                   requests, activeStreams, photos, urls>>

\* The decoder alone, on every response of at most MaxParts parts.
InitDecode ==
    /\ InitApp
    /\ innerWidth >= MobileBreakpoint
    /\ apiKey
    /\ candidate \in SeqsUpTo(PartKinds, MaxParts)
    /\ decoded = NotDecoded

SpecDecode == InitDecode /\ [][DecodeCandidate]_vars

\* The previews on a compact viewport, where every holder of a preview is
\* mounted and unmounted: uploads and URL imports together with the end of
\* onboarding, start-over and the redo that leaves no current snapshot,
\* with an API key configured.
InitPreview == Init /\ apiKey /\ innerWidth < MobileBreakpoint

\* The uploader whose URL import is explored.
ImportedType == "product"

NextPreview ==
    \/ \E imageType \in ImageTypes :
           \E file \in FilesFor(imageType) :
               /\ HandleImageUpload(imageType, file)
               /\ Len(history') <= MaxPreviewHistory
    \/ ToggleUrlInput(ImportedType)
    \/ \E url \in Urls : SetImageUrl(ImportedType, url)
    \/ HandleFetchFromUrl(ImportedType) /\ Len(fetches') <= MaxFetches
    \/ \E k \in 1..Len(fetches) : FetchResponded(k, "200")
    \/ \E k \in 1..Len(fetches), isImage \in BOOLEAN :
           BlobValidated(k, isImage) /\ Len(history') <= MaxPreviewHistory
    \/ ClickCreate /\ Len(calls') <= 1
    \/ \E k \in 1..Len(calls) : FilesEncoded(k)
    \/ \E k \in 1..Len(calls), response \in Responses :
           /\ Decode(response).ok
           /\ GenerateResolved(k, response)
           /\ Len(history') <= MaxPreviewHistory
    \/ HandleUndo
    \/ HandleRedo
    \/ HandleStartOver
    \/ Panels

SpecPreview == InitPreview /\ [][NextPreview]_vars

\* The camera beside file uploads, with an API key configured.  While the
\* modal is open it covers every other control.
InitCamera == Init /\ apiKey

NextCamera ==
    \/ \E imageType \in ImageTypes :
           \E file \in FilesFor(imageType) :
               /\ cameraFor = NoCamera
               /\ HandleImageUpload(imageType, file)
               /\ Len(history') <= MaxCameraHistory
    \/ \E imageType \in ImageTypes :
           /\ HandleOpenCamera(imageType)
           /\ activeStreams + Len(requests') <= MaxStreams
    \/ \E k \in 1..Len(requests) : StreamGranted(k)
    \/ \E k \in 1..Len(requests) : StreamDenied(k)
    \/ HandleCapture
    \/ HandleRetake
    \/ HandleUsePhoto /\ Len(photos') <= MaxPhotos
    \/ \E k \in 1..Len(photos) :
           PhotoReady(k) /\ Len(history') <= MaxCameraHistory
    \/ CloseCamera

SpecCamera == InitCamera /\ [][NextCamera]_vars

\* ------------------------------------------------------------- claims

\* The snapshot an operation saw as current.
SawState == CurrentState(last.history, last.index)

\* C1: after any sequence of uploads, generations, undo, redo and start
\* over, 0 <= currentHistoryIndex <= length(history) - 1.
C1_IndexInBounds ==
    0 <= currentHistoryIndex /\ currentHistoryIndex <= Len(history) - 1

\* C2: redo below the last position moves the index forward by exactly one.
C2_RedoMovesForward ==
    (last.op = "redo" /\ last.index < Len(last.history) - 1)
        => currentHistoryIndex = last.index + 1

C4_NoOpAtEnds ==
    /\ (last.op = "undo" /\ last.index = 0)
           => /\ currentHistoryIndex = 0
              /\ history = last.history
              /\ Mounted
    /\ (last.op = "redo" /\ last.index = Len(last.history) - 1)
           => /\ currentHistoryIndex = last.index
              /\ history = last.history
              /\ Mounted

C4_Witness ==
    /\ last.op = "redo"
    /\ last.index = Len(last.history) - 1
    /\ Len(history) >= 2
    /\ Mounted

\* C5: a request sent by a generate invoked on a snapshot with a result
\* image carries one image part, that result image, and the instruction
\* text with the prompt; never the snapshot's scene or product image.
C5_ResultIsTheOnlyImage ==
    \A k \in 1..Len(calls) :
        LET c == calls[k]
            cs == CurrentState(c.history, c.index)
        IN  (c.stage = "awaiting" /\ cs.imageUrl # NoUrl)
                => /\ Len(c.parts) = 2
                   /\ IsInline(c.parts[1])
                   /\ DataUrl(c.parts[1].inlineData.mimeType,
                              c.parts[1].inlineData.data) = cs.imageUrl
                   /\ c.parts[2] = TextPart(InstructionText(c.finalPrompt))
                   /\ \A f \in Files :
                          c.parts[1] # InlinePart(FileBase64(f), FileType(f))

\* A request in flight whose snapshot got its product image after its
\* result image.
C5_Witness ==
    \E k \in 1..Len(calls) :
        LET c == calls[k]
            cs == CurrentState(c.history, c.index)
        IN  /\ c.stage = "awaiting"
            /\ cs.imageUrl # NoUrl
            /\ cs.productImage # NoFile
            /\ cs.prompt = <<"Uploaded ", "product", " image">>
            /\ \E j \in 1..c.index :
                   /\ c.history[j].imageUrl # NoUrl
                   /\ c.history[j].productImage = NoFile

\* C6: generate invoked on a snapshot with neither a scene image nor a
\* result image sets the missing-input error, does not enter the Generation
\* Client, sends nothing, and leaves history, index and loading alone.
C6_MissingInput ==
    ( /\ last.op = "generate"
      /\ SawState.sceneImage = NoFile
      /\ SawState.imageUrl = NoUrl )
        => /\ error = MissingInputMessage
           /\ ~last.client
           /\ last.sent = <<>>
           /\ Len(calls) = last.calls
           /\ history = last.history
           /\ currentHistoryIndex = last.index
           /\ isLoading = last.isLoading

C6_Witness ==
    /\ last.op = "generate"
    /\ SawState.sceneImage = NoFile
    /\ SawState.imageUrl = NoUrl
    /\ SawState.productImage # NoFile

\* C7: a request sent by a generate invoked on a snapshot with a scene image
\* and no result image has that scene image as its base, and carries the
\* snapshot's product image if and only if the snapshot has one.
C7_SceneIsTheBase ==
    \A k \in 1..Len(calls) :
        LET c == calls[k]
            cs == CurrentState(c.history, c.index)
        IN  (c.stage = "awaiting" /\ cs.imageUrl = NoUrl)
                => /\ cs.sceneImage # NoFile
                   /\ c.parts[1] = InlinePart(FileBase64(cs.sceneImage),
                                              FileType(cs.sceneImage))
                   /\ c.parts[Len(c.parts)]
                          = TextPart(InstructionText(c.finalPrompt))
                   /\ IF cs.productImage # NoFile
                      THEN /\ Len(c.parts) = 3
                           /\ c.parts[2]
                                  = InlinePart(FileBase64(cs.productImage),
                                               FileType(cs.productImage))
                      ELSE Len(c.parts) = 2

C7_Witness ==
    \E k \in 1..Len(calls) :
        /\ calls[k].stage = "awaiting"
        /\ CurrentState(calls[k].history, calls[k].index).imageUrl = NoUrl
        /\ CurrentState(calls[k].history, calls[k].index).productImage
               # NoFile

\* C8: at most one generation call is outstanding at any time.
C8_OneOutstanding == Len(calls) <= 1

\* C9: from the initial state, upload scene A, upload product B and one
\* successful generate leave 2 entries after the first, the last with a
\* result image, sceneImage A and productImage B; a second successful
\* generate leaves 3 entries after the first.
C9_EndToEnd ==
    /\ e2e = 4
           => /\ Len(history) - 1 = 2
              /\ currentHistoryIndex = Len(history) - 1
              /\ history[Len(history)].imageUrl # NoUrl
              /\ history[Len(history)].sceneImage = "A"
              /\ history[Len(history)].productImage = "B"
    /\ e2e = 6 => Len(history) - 1 = 3

C9_Witness == e2e = 6

C11_StartOverResets ==
    [][HandleStartOver
          => /\ Len(history') = 1
             /\ history'[1].imageUrl = NoUrl
             /\ history'[1].prompt = <<>>
             /\ history'[1].sceneImage = NoFile
             /\ history'[1].productImage = NoFile
             /\ currentHistoryIndex' = 0
             /\ error' = NoError
             /\ isLoading' = FALSE]_vars

\* Start over has run on a history of several snapshots, with a result
\* image, and an error on display.
C11_Witness ==
    /\ last.op = "startOver"
    /\ Len(last.history) >= 2
    /\ SawState.imageUrl # NoUrl
    /\ history = <<EmptyState>>
    /\ error = NoError

\* C12: every snapshot of the history with a result image holds a value
\* some successful generation call returned, and the snapshot the
\* application starts with has its four fields empty.
C12_ResultsWereGenerated ==
    /\ \A k \in 1..Len(history) :
           history[k].imageUrl # NoUrl => history[k].imageUrl \in returned
    /\ last.op = "init"
           => /\ Len(history) = 1
              /\ history[1].imageUrl = NoUrl
              /\ history[1].prompt = <<>>
              /\ history[1].sceneImage = NoFile
              /\ history[1].productImage = NoFile

\* A snapshot made by an upload carries the result image of the snapshot
\* before it.
C12_Witness ==
    \E k \in 2..Len(history) :
        /\ history[k].imageUrl # NoUrl
        /\ history[k].prompt[1] = "Uploaded "
        /\ history[k - 1].imageUrl = history[k].imageUrl

\* A text of whitespace only.
Blank(text) == \A k \in 1..Len(text) : text[k] = " "

\* The label the specification gives a generation: the text it was invoked
\* with, or the default placement instruction when that text is blank.
EffectivePrompt(text) == IF Blank(text) THEN DefaultPrompt ELSE text

\* C13: a successful generation appends, at the current index, exactly one
\* snapshot whose result image is the returned image and whose label is the
\* effective prompt, makes it current, and empties the free-text input.
C13_GenerationAppends ==
    [][\A k \in 1..Len(calls), parts \in Responses :
           (GenerateResolved(k, parts) /\ Decode(parts).ok)
               => /\ Len(history') = currentHistoryIndex + 2
                  /\ SubSeq(history', 1, currentHistoryIndex + 1)
                         = SubSeq(history, 1, currentHistoryIndex + 1)
                  /\ currentHistoryIndex' = Len(history') - 1
                  /\ history'[Len(history')].imageUrl = Decode(parts).url
                  /\ history'[Len(history')].prompt
                         = EffectivePrompt(calls[k].actionPrompt)
                  /\ prompt' = <<>>]_vars

\* C13, for a generation that completes on the history it was invoked on.
C13_AppendsToItsOwnView ==
    [][\A k \in 1..Len(calls), parts \in Responses :
           ( /\ GenerateResolved(k, parts)
             /\ Decode(parts).ok
             /\ history = calls[k].history
             /\ currentHistoryIndex = calls[k].index )
               => /\ history'
                         = Append(SubSeq(history, 1, currentHistoryIndex + 1),
                                  history'[Len(history')])
                  /\ currentHistoryIndex' = Len(history') - 1
                  /\ history'[Len(history')].imageUrl = Decode(parts).url
                  /\ history'[Len(history')].prompt
                         = EffectivePrompt(calls[k].actionPrompt)
                  /\ prompt' = <<>>]_vars

\* C14: a successful generation raises the tools-highlight flag only if no
\* earlier generation succeeded.
C14_HighlightOnce ==
    [][\A k \in 1..Len(calls), parts \in Responses :
           ( /\ GenerateResolved(k, parts)
             /\ Decode(parts).ok
             /\ ~highlightTools
             /\ highlightTools' )
               => returned = {}]_vars

\* C15: after an upload, an undo, a redo or a successful generation, the
\* current-error string is empty, whatever error was stored before it.
C15_ErrorClearedByNextAction ==
    last.op \in {"upload", "undo", "redo", "generated"} => error = NoError

\* The step in which the pending call k fails: its files cannot be read,
\* no API key is configured, the transport rejects, or the response holds
\* no image.
Fails(k) ==
    \/ FilesFailed(k)
    \/ FilesEncoded(k) /\ ~apiKey
    \/ GenerateRejected(k)
    \/ \E parts \in Responses : GenerateResolved(k, parts) /\ ~Decode(parts).ok

\* C16: a generation call that fails leaves the history, the index and the
\* free-text input as they were, stores a non-empty error and returns
\* loading to false, with the application still rendered.
C16_FailureIsCaught ==
    [][\A k \in 1..Len(calls) :
           Fails(k)
               => /\ history' = history
                  /\ currentHistoryIndex' = currentHistoryIndex
                  /\ prompt' = prompt
                  /\ error' # NoError
                  /\ isLoading' = FALSE
                  /\ Mounted']_vars

\* A call invoked with a text in the input has failed for want of a
\* readable file: the text is still there, beside the fallback message.
C16_Witness ==
    /\ last.op = "failed"
    /\ error = UnexpectedMessage
    /\ prompt = <<"make it sunset">>
    /\ ~isLoading
    /\ history = last.history

\* The step in which the pending URL import k fails: the response is not
\* 2xx, the transport rejects, or the payload does not load as an image.
ImportFails(k) ==
    \/ \E status \in Statuses : FetchResponded(k, status) /\ ~StatusOk(status)
    \/ \E message \in RejectMessages : FetchRejected(k, message)
    \/ BlobValidated(k, FALSE)

\* The image an uploader shows: its imageFile prop.
ImageHandle(imageType) ==
    IF imageType = "scene"
    THEN currentState.sceneImage
    ELSE currentState.productImage

ImagePositions(parts) ==
    {k \in 1..Len(parts) :
        /\ "inlineData" \in DOMAIN parts[k]
        /\ parts[k].inlineData.mimeType \in {"image/png", "image/jpeg"}}

\* The text of a response: its text parts, in order.
RECURSIVE TextOf(_)
TextOf(parts) ==
    IF parts = <<>> THEN <<>>
    ELSE IF "text" \in DOMAIN parts[Len(parts)]
    THEN TextOf(SubSeq(parts, 1, Len(parts) - 1)) \o parts[Len(parts)].text
    ELSE TextOf(SubSeq(parts, 1, Len(parts) - 1))

\* A text from its first to its last token that is not whitespace.
Stripped(text) ==
    LET inked == {k \in 1..Len(text) : text[k] # " "}
    IN  IF inked = {} THEN <<>>
        ELSE SubSeq(text,
                    CHOOSE k \in inked : \A j \in inked : k <= j,
                    CHOOSE k \in inked : \A j \in inked : j <= k)

RefusedMessage(text) ==
    <<"Failed to generate image: ",
      "Model returned a text response instead of an image: ">> \o text

NoOutputMessage ==
    <<"Failed to generate image: ",
      "No image was generated in the response.">>

\* The decoder succeeded with the first image part of candidate.
FirstImageReturned ==
    LET first == CHOOSE k \in ImagePositions(candidate) :
                     \A j \in ImagePositions(candidate) : k <= j
    IN  /\ decoded.ok
        /\ decoded.url = <<"data:", candidate[first].inlineData.mimeType,
                           ";base64,", candidate[first].inlineData.data>>

\* C18 as stated: with an image part, success with the first image part as
\* a data URI; with none and a non-empty text, the model-refused error
\* carrying that text; with neither, the no-output error.
C18_DecodingAsStated ==
    decoded # NotDecoded
        => IF ImagePositions(candidate) # {}
           THEN FirstImageReturned
           ELSE IF TextOf(candidate) # <<>>
           THEN /\ ~decoded.ok
                /\ decoded.message = RefusedMessage(TextOf(candidate))
           ELSE /\ ~decoded.ok
                /\ decoded.message = NoOutputMessage

\* C18, amended: with an image part, success with the first image part as
\* a data URI; with none and a text that is not all whitespace, the
\* model-refused error carrying that text without the whitespace around it;
\* otherwise the no-output error.
C18_Decoding ==
    decoded # NotDecoded
        => IF ImagePositions(candidate) # {}
           THEN FirstImageReturned
           ELSE IF Stripped(TextOf(candidate)) # <<>>
           THEN /\ ~decoded.ok
                /\ decoded.message
                       = RefusedMessage(Stripped(TextOf(candidate)))
           ELSE /\ ~decoded.ok
                /\ decoded.message = NoOutputMessage

\* A response of a text followed by two different images was decoded.
C18_Witness ==
    /\ decoded # NotDecoded
    /\ Len(candidate) = 3
    /\ "text" \in DOMAIN candidate[1]
    /\ ImagePositions(candidate) = {2, 3}
    /\ candidate[2] # candidate[3]
    /\ decoded.ok

\* C19: with no API key configured, no request is ever awaited from the
\* remote API, and a call that reaches the Generation Client fails there
\* with the configuration error, having sent nothing.
C19_NoKeyNoRequest ==
    ~apiKey
        => /\ \A k \in 1..Len(calls) : calls[k].stage # "awaiting"
           /\ last.sent = <<>>
           /\ last.op = "encoded"
                  => /\ last.client
                     /\ error = <<"Failed to generate image: ",
                                  "API_KEY environment variable is not set.">>
                     /\ ~isLoading

\* Without a key, a call entered the Generation Client with a scene and a
\* product image and failed there.
C19_Witness ==
    /\ ~apiKey
    /\ last.op = "encoded"
    /\ last.client
    /\ SawState.sceneImage # NoFile
    /\ SawState.productImage # NoFile
    /\ error # NoError
    /\ calls = <<>>

\* C20: while the camera view is closed, no media stream it acquired has
\* tracks still running.
C20_NoStreamAfterClose == cameraFor = NoCamera => activeStreams = 0

\* C22: on a compact viewport the onboarding step moves only from product
\* to scene and from scene to workspace, and once it is workspace only
\* start-over changes it, back to product.
C22_OnboardingOnlyAdvances ==
    [][isMobile =>
          \/ mobileOnboardingStep' = mobileOnboardingStep
          \/ /\ mobileOnboardingStep = "product"
             /\ mobileOnboardingStep' = "scene"
          \/ /\ mobileOnboardingStep = "scene"
             /\ mobileOnboardingStep' = "workspace"
          \/ /\ mobileOnboardingStep = "workspace"
             /\ mobileOnboardingStep' = "product"
             /\ HandleStartOver]_vars

\* C23: when a generation succeeds after an upload changed the history
\* while it was in flight, the uploaded snapshot is still in the history
\* and the result snapshot carries the uploaded images.
C23_UploadInFlightKept ==
    [][\A k \in 1..Len(calls), parts \in Responses :
           ( /\ GenerateResolved(k, parts)
             /\ Decode(parts).ok
             /\ <<history, currentHistoryIndex>>
                    # <<calls[k].history, calls[k].index>> )
               => /\ \E j \in 1..Len(history') : history'[j] = currentState
                  /\ history'[Len(history')].sceneImage
                         = currentState.sceneImage
                  /\ history'[Len(history')].productImage
                         = currentState.productImage]_vars

\* C24: while the application is mounted, the loading flag is true exactly
\* when a generation call is outstanding.
C24_LoadingIffOutstanding == Mounted => (isLoading <=> Len(calls) > 0)

ImageOf(cs, imageType) ==
    IF imageType = "scene" THEN cs.sceneImage ELSE cs.productImage

OtherType(imageType) == IF imageType = "scene" THEN "product" ELSE "scene"

Validating == {k \in 1..Len(fetches) : fetches[k].stage = "validating"}

\* C21: the only object URLs allocated and not released are one for each
\* image a rendered uploader shows, one for the product preview of the
\* onboarding scene step, and one for each validation still loading its
\* image; every other one was released.
C21_NoPreviewLeaks ==
    /\ \A imageType \in ImageTypes :
           objectUrls[imageType] =
               IF /\ Mounted
                  /\ UploaderSlot(mobileOnboardingStep, imageType) # "none"
                  /\ ImageFile(imageType, currentState) # NoFile
               THEN 1 ELSE 0
    /\ objectUrls["aside"] =
           IF /\ Mounted
              /\ Onboarding
              /\ mobileOnboardingStep = "scene"
              /\ currentState.productImage # NoFile
           THEN 1 ELSE 0
    /\ objectUrls["validation"] = Cardinality(Validating)

\* A URL import made from the workspace replaced the product image an
\* uploader was showing: its validation URL is released, the uploader and
\* the LeftAside that held it are unmounted, and the onboarding LeftAside
\* previews the imported product.
C21_Witness ==
    /\ last.op = "imported"
    /\ ImageFile("product", SawState) # NoFile
    /\ UploaderSlot(mobileOnboardingStep, "product") = "none"
    /\ previews["aside"] = UrlFile
    /\ objectUrls["validation"] = 0

====
